---- MODULE Spec2Model ----
(***************************************************************************)
(* A model of build.py, the build orchestrator of proton-sdk-rs: main()'s  *)
(* argument dispatch, build_all's preflight and step loop, the step        *)
(* functions, the staging of AOT output into native-libs/<rid> and the     *)
(* repackaging of the NuGet archive with the Go native libraries.          *)
(*                                                                         *)
(* A file path is a record [dir, stem, ext]: the directory segments, and   *)
(* the file name split at its last dot (pathlib's stem and suffix).  A     *)
(* tree is a function from the paths of its files to a content tag.        *)
(* Directories that hold no file are tracked only where the code tests     *)
(* their existence.                                                        *)
(***************************************************************************)
EXTENDS Integers, Sequences, FiniteSets, TLC

\* ------------------------------------------------------------- bounds
MaxRuns == 3        \* runs of the script in one session
MaxFiles == 2       \* files in one AOT output tree
MaxBadTools == 1    \* required tools failing their version check at once
MaxEntries == 2     \* entries dotnet pack puts into the archive

\* ------------------------------------------------------- paths, trees
P(d, s, e) == [dir |-> d, stem |-> s, ext |-> e]

EmptyTree == [p \in {} |-> 0]

\* dict.update / copy onto an existing directory: b's files replace a's.
Merge(a, b) ==
  [p \in (DOMAIN a) \cup (DOMAIN b) |-> IF p \in DOMAIN b THEN b[p] ELSE a[p]]

IsPrefix(s, t) == Len(s) <= Len(t) /\ SubSeq(t, 1, Len(s)) = s

\* item.relative_to(root) for the files of tree t that lie under root.
Under(t, root) ==
  LET inside == {p \in DOMAIN t : IsPrefix(root, p.dir)}
      rel(p) == P(SubSeq(p.dir, Len(root) + 1, Len(p.dir)), p.stem, p.ext)
  IN  [q \in {rel(p) : p \in inside} |->
         t[CHOOSE p \in inside : rel(p) = q]]

\* the tree t placed under directory root
Prefixed(t, root) ==
  LET put(p) == P(root \o p.dir, p.stem, p.ext)
  IN  [q \in {put(p) : p \in DOMAIN t} |->
         t[CHOOSE p \in DOMAIN t : put(p) = q]]

\* str.lower() on the suffixes and platform strings that occur
Lower(e) ==
  CASE e = ".PDB" -> ".pdb"
    [] e = ".Pdb" -> ".pdb"
    [] e = ".DLL" -> ".dll"
    [] e = "Windows" -> "windows"
    [] e = "Darwin" -> "darwin"
    [] e = "Linux" -> "linux"
    [] e = "FreeBSD" -> "freebsd"
    [] e = "AMD64" -> "amd64"
    [] e = "ARM64" -> "arm64"
    [] OTHER -> e

\* a directory: whether it exists, and the files below it
NoDir == [exists |-> FALSE, files |-> EmptyTree]
Dir(t) == [exists |-> TRUE, files |-> t]

\* ------------------------------------------------------------ platform
OSNames == {"windows", "linux", "macos"}
Archs == {"amd64", "arm64", "386"}

\* what platform.machine() and platform.system() may return, and --arch
Machines ==
  {"x86_64", "AMD64", "amd64", "aarch64", "arm64", "ARM64", "i386", "i686",
   "x86", "riscv64"}
Systems == {"Windows", "Darwin", "Linux", "FreeBSD"}
ArchArgs == Archs \cup {"none"}

\* _detect_arch: Go's name of the machine, other machines passed through
detect_arch(machine) ==
  LET m == Lower(machine)
  IN  CASE m \in {"x86_64", "amd64"} -> "amd64"
        [] m \in {"aarch64", "arm64"} -> "arm64"
        [] m \in {"i386", "i686", "x86"} -> "386"
        [] OTHER -> m

\* _detect_os: the OS family, other systems passed through
detect_os_GoNames(system) == Lower(system)
detect_os(system) ==
  LET o == Lower(system)
  IN  CASE o = "windows" -> "windows"
        [] o = "darwin" -> "macos"
        [] o = "linux" -> "linux"
        [] OTHER -> o

\* self.arch = arch or self._detect_arch()
arch_of(h) == IF h.arch_arg # "none" THEN h.arch_arg ELSE detect_arch(h.machine)

Hosts == [machine : Machines, system : Systems, arch_arg : ArchArgs]

\* every value self.os_name and self.arch may take
AllOS == {detect_os(s) : s \in Systems}
AllArchs == {arch_of(h) : h \in Hosts}

\* build_dll_only / build_proton_sdk_rs: the runtime identifier
dotnet_arch(arch) == IF arch = "amd64" THEN "x64" ELSE arch

runtime_id(os, arch) ==
  CASE os = "windows" -> "win-" \o dotnet_arch(arch)
    [] os = "linux" -> "linux-" \o dotnet_arch(arch)
    [] os = "macos" -> "osx-" \o dotnet_arch(arch)
    [] OTHER -> os \o "-" \o dotnet_arch(arch)

\* build_go_crypto: GOOS, and the runtime identifier from its two dicts
go_os(os) == IF os = "macos" THEN "darwin" ELSE os

arch_rid_map == [a \in {"386", "amd64", "arm64"} |->
  CASE a = "386" -> "x86" [] a = "amd64" -> "x64" [] OTHER -> "arm64"]

os_rid_map == [o \in {"windows", "darwin", "linux", "android", "ios"} |->
  CASE o = "windows" -> "win" [] o = "darwin" -> "osx" [] o = "linux" -> "linux"
    [] o = "android" -> "linux-bionic" [] OTHER -> "ios"]

go_rid_known(os, arch) ==
  go_os(os) \in DOMAIN os_rid_map /\ arch \in DOMAIN arch_rid_map

go_runtime_id(os, arch) == os_rid_map[go_os(os)] \o "-" \o arch_rid_map[arch]

RIDs == {runtime_id(o, a) : o \in AllOS, a \in AllArchs}

\* -------------------------------------------------------------- staging
\* item.suffix.lower() == '.pdb'
IsPdb_CaseSensitive(p) == p.ext = ".pdb"
IsPdb(p) == Lower(p.ext) = ".pdb"

Copied(src) == {p \in DOMAIN src : ~IsPdb(p)}

\* copy_files_excluding_pdb(src_dir, dst_dir): mkdir(exist_ok), then every
\* file but the .pdb ones to the same relative path under dst_dir.
copy_files_excluding_pdb(src, dst) ==
  Dir(Merge(dst.files, [p \in Copied(src) |-> src[p]]))

\* build_proton_sdk_rs: rmtree the destination if it exists, then copy.
StageRs_CopyOnlyIfAbsent(src, dst) ==
  IF dst.exists THEN Dir(EmptyTree) ELSE copy_files_excluding_pdb(src, NoDir)
StageRs(src, dst) ==
  copy_files_excluding_pdb(src, IF dst.exists THEN NoDir ELSE dst)

\* build_dll_only: mkdir(exist_ok), then every file but the .pdb ones to
\* native_libs_dir / item.name.  Of several source files with one name the
\* last in rglob's order stays; that order is fixed for a given tree.
Flat(p) == P(<<>>, p.stem, p.ext)

StageDll(src, dst) ==
  LET names == {Flat(p) : p \in Copied(src)}
      last(n) == CHOOSE p \in Copied(src) : Flat(p) = n
  IN  Dir(Merge(dst.files, [n \in names |-> src[last(n)]]))

\* the AOT output of one runtime identifier, bin/Release/net9.0/<rid>:
\* whether it and its publish subdirectory exist, and the files below it
NoAot == [output |-> FALSE, publish |-> FALSE, files |-> EmptyTree]

\* aot_publish_dir if it exists, else aot_output_dir if it exists
HasSource(a) == a.publish \/ a.output
SourceDir(a) == IF a.publish THEN Under(a.files, <<"publish">>) ELSE a.files

\* ----------------------------------------------------- Go native build
\* go_env, as far as build_go_crypto sets it ("" for a variable it leaves
\* as the process environment has it)
NoEnv ==
  [GOOS |-> "", GOARCH |-> "", CC |-> "", CXX |-> "", CGO_CFLAGS |-> "",
   CGO_LDFLAGS |-> ""]

base_env(gos, garch) ==
  [NoEnv EXCEPT !.GOOS = gos, !.GOARCH = garch, !.CGO_LDFLAGS = "-s -w"]

\* the overlay for MinGW
mingw_env_DynamicLink(env) ==
  [env EXCEPT !.CC = "gcc", !.CXX = "g++", !.CGO_CFLAGS = "-O2"]
mingw_env(env) ==
  [env EXCEPT !.CC = "gcc", !.CXX = "g++", !.CGO_CFLAGS = "-O2",
              !.CGO_LDFLAGS = "-s -w -static -static-libgcc -static-libstdc++"]

\* the compiler for the Go build: on Windows `gcc --version` is run and,
\* when it fails, build_go_crypto returns; elsewhere CC is gcc, unprobed
Probe(cmd, ok) == [cmd |-> cmd, ok |-> ok]

toolchain_ProbeEverywhere(gos, garch, gcc_ok) ==
  [probes |-> <<Probe("gcc --version", gcc_ok)>>,
   resolved |-> gcc_ok,
   env |-> IF gcc_ok THEN [base_env(gos, garch) EXCEPT !.CC = "gcc"]
           ELSE base_env(gos, garch)]
toolchain(gos, garch, gcc_ok) ==
  IF gos = "windows"
  THEN [probes |-> <<Probe("gcc --version", gcc_ok)>>,
        resolved |-> gcc_ok,
        env |-> IF gcc_ok THEN mingw_env(base_env(gos, garch))
                ELSE base_env(gos, garch)]
  ELSE [probes |-> <<>>,
        resolved |-> TRUE,
        env |-> [base_env(gos, garch) EXCEPT !.CC = "gcc"]]

build_modes == <<"c-shared", "c-archive">>
lib_name == "proton_crypto"

\* build_go_crypto: the output file of a build mode, or skip for the modes
\* the OS does not support
Skip == P(<<>>, "", "")
output_file_name(gos, mode) ==
  CASE gos = "windows" ->
         IF mode = "c-shared" THEN P(<<>>, lib_name, ".dll")
         ELSE P(<<>>, lib_name, ".a")
    [] gos = "linux" ->
         IF mode = "c-shared" THEN P(<<>>, "lib" \o lib_name, ".so")
         ELSE P(<<>>, "lib" \o lib_name, ".a")
    [] gos = "android" ->
         IF mode = "c-shared" THEN P(<<>>, "lib" \o lib_name, ".so") ELSE Skip
    [] gos = "darwin" ->
         IF mode = "c-shared" THEN P(<<>>, lib_name, ".dylib")
         ELSE P(<<>>, lib_name, ".a")
    [] gos = "ios" ->
         IF mode = "c-shared" THEN Skip ELSE P(<<>>, lib_name, ".a")
    [] OTHER -> P(<<>>, "lib" \o lib_name, ".so")

\* crypto_dir / "bin" / "runtimes" / runtime_id / "native", below bin
output_dir_path(rid) == <<"runtimes", rid, "native">>

\* the files one build mode leaves in bin when `go build` exits 0: the
\* output file and, for the Windows c-archive, its copy with suffix .lib
\* (shutil.copy2, whose failure is only warned about)
BuiltFiles(gos, rid, mode, lib_copied) ==
  LET n == output_file_name(gos, mode)
      out == P(output_dir_path(rid), n.stem, n.ext)
  IN  IF n = Skip THEN {}
      ELSE IF gos = "windows" /\ mode = "c-archive" /\ lib_copied
      THEN {out, P(out.dir, out.stem, ".lib")}
      ELSE {out}

\* the for loop over build_modes; ok[i] is whether build i exits 0
GoBuilt(gos, rid, ok, lib_copied) ==
  UNION {IF ok[i] THEN BuiltFiles(gos, rid, build_modes[i], lib_copied) ELSE {}
         : i \in 1..Len(build_modes)}

\* the `go build` commands the loop runs, in order: one for each build
\* mode the OS supports, with the compiler of go_env and its exit
GoRun(mode, cc, ok) == [mode |-> mode, CC |-> cc, ok |-> ok]

RECURSIVE GoRuns_StopAtFailure(_, _, _, _)
GoRuns_StopAtFailure(gos, env, ok, n) ==
  IF n = 0 THEN <<>>
  ELSE LET before == GoRuns_StopAtFailure(gos, env, ok, n - 1)
       IN  IF output_file_name(gos, build_modes[n]) = Skip
              \/ (before # <<>> /\ ~before[Len(before)].ok)
           THEN before
           ELSE Append(before, GoRun(build_modes[n], env.CC, ok[n]))
RECURSIVE GoRuns(_, _, _, _)
GoRuns(gos, env, ok, n) ==
  IF n = 0 THEN <<>>
  ELSE IF output_file_name(gos, build_modes[n]) = Skip
  THEN GoRuns(gos, env, ok, n - 1)
  ELSE Append(GoRuns(gos, env, ok, n - 1), GoRun(build_modes[n], env.CC, ok[n]))

\* ------------------------------------------------- archive repackaging
\* crypto_bin_dir.glob("**/native/libproton_crypto.*")
GlobNative(p) ==
  /\ p.dir # <<>>
  /\ p.dir[Len(p.dir)] = "native"
  /\ p.stem = "libproton_crypto"
  /\ p.ext # ""

native_libs(bin) ==
  IF bin.exists THEN {p \in DOMAIN bin.files : GlobNative(p)} ELSE {}

\* local_nuget_temp.glob("*.nupkg")
nupkg_files(temp) == {n \in DOMAIN temp : n.ext = ".nupkg"}

\* lib.parts: the segments of the library's absolute path
Parts(base, lib) ==
  base \o <<"dotnet-crypto", "bin">> \o lib.dir \o <<lib.stem \o lib.ext>>

\* the first index of "runtimes" in parts, 0 when there is none
runtime_idx(parts) ==
  LET hits == {i \in 1..Len(parts) : parts[i] = "runtimes"}
  IN  IF hits = {} THEN 0 ELSE CHOOSE i \in hits : \A j \in hits : i <= j

\* runtime_idx is not None and runtime_idx + 2 < len(parts), 0-based there
Injectable(parts) == runtime_idx(parts) # 0 /\ runtime_idx(parts) + 1 < Len(parts)

\* temp_path / "runtimes" / runtime_id / "native" / lib.name
TargetFile(base, lib) ==
  LET parts == Parts(base, lib)
  IN  P(<<"runtimes", parts[runtime_idx(parts) + 1], "native">>, lib.stem, lib.ext)

\* extractall, copy every injectable library to its target, unlink the
\* archive and write every file of the scratch tree into a new one
Repackage_InjectedOnly(archive, bin, base) ==
  LET libs == {l \in native_libs(bin) : Injectable(Parts(base, l))}
      targets == {TargetFile(base, l) : l \in libs}
      from(t) == CHOOSE l \in libs : TargetFile(base, l) = t
  IN  [t \in targets |-> bin.files[from(t)]]
Repackage(archive, bin, base) ==
  LET libs == {l \in native_libs(bin) : Injectable(Parts(base, l))}
      targets == {TargetFile(base, l) : l \in libs}
      from(t) == CHOOSE l \in libs : TargetFile(base, l) = t
  IN  Merge(archive, [t \in targets |-> bin.files[from(t)]])

\* the temporary package directory after the repackaging block: with
\* native libraries and a package found, nupkg_files[0] is rewritten
WillRepackage(temp, bin) == native_libs(bin) # {} /\ nupkg_files(temp) # {}

Repackaged_UnlinkAlways(temp, bin, base) ==
  LET first == CHOOSE n \in nupkg_files(temp) : TRUE
  IN  IF WillRepackage(temp, bin)
      THEN [temp EXCEPT ![first] = Repackage(temp[first], bin, base)]
      ELSE [n \in (DOMAIN temp) \ nupkg_files(temp) |-> temp[n]]
Repackaged(temp, bin, base) ==
  LET first == CHOOSE n \in nupkg_files(temp) : TRUE
  IN  IF WillRepackage(temp, bin)
      THEN [temp EXCEPT ![first] = Repackage(temp[first], bin, base)]
      ELSE temp

\* ---------------------------------------------------------------- state
VARIABLES
  step,          \* args.step: the step selector
  excluded,      \* exclude_steps, after --skip-clone has added "clone"
  clean,         \* args.clean
  arch,          \* self.arch: --arch, or the detected architecture
  os_name,       \* self.os_name
  base_dir,      \* self.base_dir, as its path segments
  run,           \* the number of this run of the script in the session
  pc,            \* where the run stands: main, build_all, steps, done
  idx,           \* build_all's position in all_steps
  exitCode,      \* the process exit status, -1 while it runs
  calls,         \* the step functions invoked in this run, in order
  missing_tools, \* check_dependencies' missing_tools
  tool_status,   \* how each tool's version check ended, "unchecked" before
  fatal,         \* the commands of this run whose failure raised
  present,       \* the directories and project files that exist under base_dir
  cryptoBin,     \* dotnet-crypto/bin
  temp,          \* dotnet-crypto/local-nuget-repository: name -> archive
  cache,         \* base_dir/local-nuget-repository: name -> archive
  aot,           \* rid -> the CExports AOT output for that rid
  otherFw,       \* bin/Release/net*.0 directories of the other SDK projects
  nativeLibs,    \* rid -> base_dir/native-libs/<rid>
  srcProtos,     \* Proton.SDK/protos
  dstProtos,     \* proton-sdk-sys/protos
  sdkBuild,      \* what `dotnet publish` writes for the SDK sources as they are
  packOut,       \* what `dotnet pack` writes for the crypto sources as they are
  stageHist,     \* the last two stagings: function, rid, source, before, after
  packed,        \* the temporary package directory as dotnet pack left it
  found,         \* native_libs as the last crypto step globbed them
  goBuilt,       \* the files the last crypto step's Go builds produced
  host,          \* platform.machine(), platform.system() and --arch
  warned,        \* the failures of this run that were only warned about
  go_env,        \* go_env as the last crypto step's Go build set it
  probes,        \* the compiler probes the last crypto step ran, in order
  go_runs,       \* the `go build` commands the last crypto step ran
  cwd,           \* the working directory of the process
  used           \* the locations this run's steps used: what, and where

argv == <<step, excluded, clean, arch, os_name, base_dir, run, host>>
ctl == <<pc, idx, exitCode>>
proc == <<cwd, used>>
preflight == <<missing_tools, tool_status>>
world == <<sdkBuild, packOut, srcProtos, otherFw>>
cryptoFs == <<cryptoBin, temp, cache>>
cryptoHist == <<packed, found, goBuilt, go_env, probes, go_runs>>
stageFs == <<aot, nativeLibs, stageHist>>
vars == <<argv, ctl, proc, calls, fatal, warned, preflight, present, cryptoFs,
          cryptoHist, stageFs, dstProtos, world>>

required_tools == {"git", "dotnet", "cargo", "rustc", "go", "gcc"}

\* all_steps of build_all: (step id, step function)
all_steps_ProtosFirst == <<
  [name |-> "clone", func |-> "clone_repositories"],
  [name |-> "protos", func |-> "copy_protobufs"],
  [name |-> "crypto", func |-> "build_dotnet_crypto"],
  [name |-> "sdk", func |-> "build_dll_only"] >>
all_steps == <<
  [name |-> "clone", func |-> "clone_repositories"],
  [name |-> "crypto", func |-> "build_dotnet_crypto"],
  [name |-> "protos", func |-> "copy_protobufs"],
  [name |-> "sdk", func |-> "build_dll_only"] >>

StepChoices == {"clone", "crypto", "sdk", "rust", "protos", "dll", "all"}
ExcludeChoices == {"clone", "crypto", "sdk", "rust", "protos"}

\* what a clone of each repository brings
ClonedCrypto == {"dotnet-crypto", "go_src"}
ClonedSdk == {"Proton.SDK", "drive_project", "protos_src"}

\* ---------------------------------------------------- working directory
\* Path.cwd() as the script starts.  Path(base_dir) is kept as given, so
\* a relative --base-dir names the tree only from this directory.
StartDir == <<"/">>

\* the absolute location a path names when the working directory is d
Resolve(d, path) == IF path # <<>> /\ path[1] = "/" THEN path ELSE d \o path

\* the directory of the tree the script is to build
Tree == Resolve(StartDir, base_dir)

\* from working directory d the paths built on self.base_dir name the
\* tree; otherwise they name locations where nothing exists
Seen(d) == Resolve(d, base_dir) = Tree

Use(what, at) == [what |-> what, at |-> at]

\* ------------------------------------------------------- step functions
\* Each step function is an action on the file system that also appends to
\* calls; raised tells whether an exception left the function.  External
\* commands exit 0 or not as the environment decides.

\* chdir to base_dir, then git clone for each repository whose directory
\* does not exist; a failed clone raises CalledProcessError out of
\* run_command, and git fails on a destination that exists.
NeedsClone_Always(repo, here) == TRUE
NeedsClone(repo, here) == ~Seen(here) \/ repo \notin present

clone_repositories(raised) ==
  /\ calls' = Append(calls, "clone_repositories")
  /\ UNCHANGED <<warned, cryptoFs, cryptoHist, stageFs, dstProtos>>
  /\ IF ~Seen(cwd)
     THEN /\ raised = TRUE
          /\ fatal' = fatal \cup {"chdir"}
          /\ UNCHANGED <<present, proc>>
     ELSE \E g1 \in BOOLEAN, g2 \in BOOLEAN :
       LET here == Resolve(cwd, base_dir)
           need1 == NeedsClone("dotnet-crypto", here)
           ok1 == g1 /\ "dotnet-crypto" \notin present
           fail1 == need1 /\ ~ok1
           after1 == IF need1 /\ ok1 THEN present \cup ClonedCrypto ELSE present
           need2 == ~fail1 /\ NeedsClone("Proton.SDK", here)
           ok2 == g2 /\ "Proton.SDK" \notin present
           fail2 == need2 /\ ~ok2
           after2 == IF need2 /\ ok2 THEN after1 \cup ClonedSdk ELSE after1
       IN  /\ raised = (fail1 \/ fail2)
           /\ fatal' = IF fail1 \/ fail2 THEN fatal \cup {"git clone"} ELSE fatal
           /\ present' = after2
           /\ cwd' = here
           /\ used' = used \cup {Use("base_dir", Resolve(here, base_dir))}
                \cup (IF need1 THEN {Use("git clone dotnet-crypto", here)} ELSE {})
                \cup (IF need2 THEN {Use("git clone Proton.SDK", here)} ELSE {})

\* target_proto_dir.glob("*.proto") / source_proto_dir.glob("*.proto")
IsProto(p) == p.dir = <<>> /\ p.ext = ".proto"

Only(t, keep(_)) == [p \in {q \in DOMAIN t : keep(q)} |-> t[p]]

\* proton-sdk-sys/protos after copy_protobufs: unchanged when the source
\* directory or proton-sdk-sys is missing, else its .proto files are
\* unlinked and the source's .proto files copied in.
ProtosCopied_KeepStale ==
  IF ~Seen(cwd) \/ "protos_src" \notin present \/ "proton-sdk-sys" \notin present
  THEN dstProtos
  ELSE Dir(Merge(dstProtos.files, Only(srcProtos, IsProto)))
ProtosCopied ==
  IF ~Seen(cwd) \/ "protos_src" \notin present \/ "proton-sdk-sys" \notin present
  THEN dstProtos
  ELSE LET notProto(p) == ~IsProto(p)
       IN  Dir(Merge(Only(dstProtos.files, notProto), Only(srcProtos, IsProto)))

copy_protobufs(raised) ==
  /\ raised = FALSE
  /\ dstProtos' = ProtosCopied
  /\ calls' = Append(calls, "copy_protobufs")
  /\ used' = used \cup {Use("base_dir", Resolve(cwd, base_dir))}
  /\ UNCHANGED <<fatal, warned, present, cryptoFs, cryptoHist, stageFs, cwd>>

\* dotnet publish adds its directories and files to what is there
Published(a, b) ==
  [output |-> a.output \/ b.output, publish |-> a.publish \/ b.publish,
   files |-> Merge(a.files, b.files)]

Logged(h, e) == IF Len(h) < 2 THEN Append(h, e) ELSE <<h[2], e>>

\* native-libs after a staging wrote native-libs/<rid>
Staged_ClearsRoot(libs, rid, after) ==
  [r \in DOMAIN libs |-> IF r = rid THEN after ELSE NoDir]
Staged(libs, rid, after) == [libs EXCEPT ![rid] = after]

StageEvent(fn, rid, src, before, after) ==
  [fn |-> fn, rid |-> rid, src |-> src, before |-> before, after |-> after]

\* build_dll_only: restore (failure only warned about), publish (failure
\* returns), resolve the source directory, stage it flat into native-libs.
build_dll_only(raised) ==
  LET rid == runtime_id(os_name, arch)
  IN  /\ raised = FALSE
      /\ calls' = Append(calls, "build_dll_only")
      /\ UNCHANGED <<fatal, present, cryptoFs, cryptoHist, dstProtos, cwd>>
      /\ used' = used \cup {Use("base_dir", Resolve(cwd, base_dir))}
      /\ IF ~Seen(cwd) \/ "Proton.SDK" \notin present \/ "drive_project" \notin present
         THEN UNCHANGED <<stageFs, warned>>
         ELSE \E restore_ok \in BOOLEAN, publish_ok \in BOOLEAN :
              /\ warned' = warned
                   \cup (IF restore_ok THEN {} ELSE {"dotnet restore"})
                   \cup (IF publish_ok THEN {} ELSE {"dotnet publish"})
              /\ IF ~publish_ok
                THEN UNCHANGED stageFs
                ELSE LET a == Published(aot[rid], sdkBuild)
                     IN  /\ aot' = [aot EXCEPT ![rid] = a]
                         /\ IF ~HasSource(a)
                            THEN UNCHANGED <<nativeLibs, stageHist>>
                            ELSE LET src == SourceDir(a)
                                     after == StageDll(src, nativeLibs[rid])
                                 IN  /\ nativeLibs' = Staged(nativeLibs, rid, after)
                                     /\ stageHist' = Logged(stageHist,
                                          StageEvent("build_dll_only", rid, src,
                                                     nativeLibs[rid], after))

\* the CExports project's bin/Release/net9.0, which holds one directory per
\* runtime identifier
CExportsFw ==
  LET built == {r \in RIDs : aot[r].output}
      dom == UNION {DOMAIN Prefixed(aot[r].files, <<r>>) : r \in built}
  IN  IF built = {} THEN {}
      ELSE {[proj |-> "Proton.Sdk.Drive.CExports", fw |-> "net9.0",
             files |-> [q \in dom |->
                          aot[q.dir[1]].files[P(Tail(q.dir), q.stem, q.ext)]]]}

\* fnmatch of a framework directory name against net*.0
NetStarZero(fw) == fw \in {"net9.0", "net8.0", "netstandard2.0"}

\* glob("**/bin/Release/net9.0"), and if that is empty glob(".../net*.0")
net90_dirs ==
  LET all == CExportsFw \cup otherFw
      nine == {d \in all : d.fw = "net9.0"}
  IN  IF nine # {} THEN nine ELSE {d \in all : NetStarZero(d.fw)}

\* build_proton_sdk_rs: resolve the source directory (AOT publish, AOT
\* output, else the first framework directory found), replace
\* native-libs/<rid> by a copy of it, copy the protobufs, run cargo in the
\* two Rust projects after a chdir to each that exists (failures only
\* warned about).
build_proton_sdk_rs(raised) ==
  LET rid == runtime_id(os_name, arch)
      a == aot[rid]
      has == Seen(cwd) /\ (HasSource(a) \/ net90_dirs # {})
      cwd1 == IF Seen(cwd) /\ "proton-sdk-rs" \in present
              THEN Tree \o <<"proton-sdk-rs">> ELSE cwd
      cwd2 == IF Seen(cwd1) /\ "proton-sdk-sys" \in present
              THEN Tree \o <<"proton-sdk-sys">> ELSE cwd1
      src == IF HasSource(a) THEN SourceDir(a)
             ELSE (CHOOSE d \in net90_dirs : TRUE).files
      after == StageRs(src, nativeLibs[rid])
  IN  /\ raised = FALSE
      /\ calls' = calls \o <<"build_proton_sdk_rs", "copy_protobufs">>
      /\ dstProtos' = ProtosCopied
      /\ cwd' = cwd2
      /\ used' = used \cup {Use("base_dir", Resolve(cwd, base_dir))}
      /\ UNCHANGED <<fatal, warned, present, cryptoFs, cryptoHist, aot>>
      /\ IF has
         THEN /\ nativeLibs' = Staged(nativeLibs, rid, after)
              /\ stageHist' = Logged(stageHist,
                   StageEvent("build_proton_sdk_rs", rid, src, nativeLibs[rid], after))
         ELSE UNCHANGED <<nativeLibs, stageHist>>

\* the package cache after every file of the temporary package directory
\* was moved into it, an existing file of the same name unlinked first
MoveToCache_ReplaceAll(cached, moved) == moved
MoveToCache(cached, moved) == Merge(cached, moved)

\* build_dotnet_crypto, with build_go_crypto inlined: chdir to the crypto
\* directory (FileNotFoundError when it is missing), the Go builds, the two
\* package directories, the NuGet source (remove: failure ignored; add:
\* failure raised), dotnet pack (failure raised), the repackaging of the
\* archive with the native libraries, the move of the packages to the cache.
\* With a relative base_dir the paths built on it after the chdir name
\* other locations: there is no Go source there, and the directories made
\* and the package written there are not the tree's.
build_dotnet_crypto(raised) ==
  /\ calls' = Append(calls, "build_dotnet_crypto")
  /\ UNCHANGED <<present, stageFs, dstProtos>>
  /\ IF ~Seen(cwd) \/ "dotnet-crypto" \notin present
     THEN /\ raised = TRUE
          /\ fatal' = fatal \cup {"chdir"}
          /\ used' = used \cup {Use("base_dir", Resolve(cwd, base_dir))}
          /\ UNCHANGED <<cryptoFs, cryptoHist, warned, cwd>>
     ELSE IF ~go_rid_known(os_name, arch)
     THEN /\ raised = TRUE
          /\ fatal' = fatal \cup {"runtime id"}
          /\ cwd' = Tree \o <<"dotnet-crypto">>
          /\ used' = used \cup {Use("base_dir", Resolve(cwd, base_dir))}
          /\ UNCHANGED <<cryptoFs, cryptoHist, warned>>
     ELSE \E gcc_ok \in BOOLEAN, ok \in [1..2 -> BOOLEAN], lib_copied \in BOOLEAN,
             rm_ok \in BOOLEAN, add_ok \in BOOLEAN, pack_ok \in BOOLEAN :
       LET here == Tree \o <<"dotnet-crypto">>
           sees == Seen(here)
           gos == go_os(os_name)
           rid == go_runtime_id(os_name, arch)
           tc == toolchain(gos, arch, gcc_ok)
           no_gcc == ~tc.resolved
           building == tc.resolved /\ sees /\ "go_src" \in present
           bin1 == IF no_gcc THEN cryptoBin ELSE Dir(cryptoBin.files)
           built == IF building THEN GoBuilt(gos, rid, ok, lib_copied) ELSE {}
           runs == IF building THEN GoRuns(gos, tc.env, ok, Len(build_modes))
                   ELSE <<>>
           bin2 == [bin1 EXCEPT !.files = Merge(@, [p \in built |-> "go"])]
           temp2 == Merge(temp.files, packOut)
           temp3 == Repackaged(temp2, bin2, base_dir)
       IN  /\ raised = (~add_ok \/ ~pack_ok)
           /\ fatal' = IF ~add_ok THEN fatal \cup {"dotnet nuget add source"}
                       ELSE IF ~pack_ok THEN fatal \cup {"dotnet pack"}
                       ELSE fatal
           /\ warned' = warned
                \cup (IF no_gcc THEN {"gcc --version"} ELSE {})
                \cup {"go build " \o runs[i].mode : i \in {j \in 1..Len(runs) : ~runs[j].ok}}
                \cup (IF rm_ok THEN {} ELSE {"dotnet nuget remove source"})
           /\ cwd' = here
           /\ used' = used
                \cup {Use("base_dir", Resolve(cwd, base_dir)),
                      Use("base_dir", Resolve(here, base_dir))}
                \cup (IF add_ok THEN {Use("dotnet pack", here)} ELSE {})
           /\ goBuilt' = built
           /\ go_env' = tc.env
           /\ probes' = tc.probes
           /\ go_runs' = runs
           /\ IF ~sees
              THEN UNCHANGED <<cryptoFs, packed, found>>
              ELSE /\ cryptoBin' = bin2
                   /\ IF raised
                      THEN /\ temp' = Dir(temp.files)
                           /\ cache' = Dir(cache.files)
                           /\ UNCHANGED <<packed, found>>
                      ELSE /\ temp' = Dir(EmptyTree)
                           /\ cache' = Dir(MoveToCache(cache.files, temp3))
                           /\ packed' = temp2
                           /\ found' = native_libs(bin2)

\* clean_all: rmtree of each target that exists (a failure is only warned
\* about), cargo clean and the NuGet cache clear (failures only warned
\* about).  The two Proton.SDK targets are paths with a literal "**"
\* segment, which exist() never finds, and the native-libs target is
\* proton-sdk-sys/native-libs; neither reaches aot or nativeLibs.
CleanTargets == {"bin", "temp", "cache", "runtimes"}

UnderRuntimes(p) == IsPrefix(<<"runtimes">>, p.dir)

\* target_path.exists() for each target at its turn of clean_all's loop;
\* bin1 is dotnet-crypto/bin as the first target's turn left it
CleanExists(t, bin1) ==
  CASE t = "bin" -> cryptoBin.exists
    [] t = "temp" -> temp.exists
    [] t = "cache" -> cache.exists
    [] t = "runtimes" -> \E p \in DOMAIN bin1.files : UnderRuntimes(p)

clean_all ==
  \E removed \in [CleanTargets -> BOOLEAN] :
    LET notRuntimes(p) == ~UnderRuntimes(p)
        bin1 == IF cryptoBin.exists /\ removed["bin"] THEN NoDir ELSE cryptoBin
        bin2 == IF bin1.exists /\ removed["runtimes"]
                THEN Dir(Only(bin1.files, notRuntimes)) ELSE bin1
    IN  /\ cryptoBin' = bin2
        /\ temp' = IF removed["temp"] THEN NoDir ELSE temp
        /\ cache' = IF removed["cache"] THEN NoDir ELSE cache
        /\ warned' = warned \cup
             {"rmtree " \o t : t \in {u \in CleanTargets :
                                        ~removed[u] /\ CleanExists(u, bin1)}}
        /\ UNCHANGED <<present, cryptoHist, stageFs, dstProtos, calls, fatal, proc>>

\* -------------------------------------------------------------- control
\* what follows a step function: an exception ends the run with status 1
\* (sys.exit(1) in build_all's handlers, the traceback of an uncaught
\* exception in main); build_all goes on to its next step; a single step
\* ends the run with status 0
Finish_WarnAndContinue(raised) ==
  IF step = "all" THEN pc' = "steps" /\ idx' = idx + 1 /\ exitCode' = exitCode
  ELSE pc' = "done" /\ exitCode' = 0 /\ idx' = idx
Finish(raised) ==
  IF raised THEN pc' = "done" /\ exitCode' = 1 /\ idx' = idx
  ELSE IF step = "all" THEN pc' = "steps" /\ idx' = idx + 1 /\ exitCode' = exitCode
  ELSE pc' = "done" /\ exitCode' = 0 /\ idx' = idx

Invoke(func, raised) ==
  CASE func = "clone_repositories" -> clone_repositories(raised)
    [] func = "build_dotnet_crypto" -> build_dotnet_crypto(raised)
    [] func = "copy_protobufs" -> copy_protobufs(raised)
    [] func = "build_dll_only" -> build_dll_only(raised)
    [] func = "build_proton_sdk_rs" -> build_proton_sdk_rs(raised)

Run(func) == \E raised \in BOOLEAN : Invoke(func, raised) /\ Finish(raised)

Nothing ==
  /\ pc' = "done" /\ exitCode' = 0 /\ idx' = idx
  /\ UNCHANGED <<calls, fatal, warned, present, cryptoFs, cryptoHist, stageFs,
                 dstProtos, proc>>

\* main, --clean: clean_all and return
main_clean ==
  /\ pc = "main" /\ clean
  /\ clean_all
  /\ pc' = "done" /\ exitCode' = 0
  /\ UNCHANGED <<argv, idx, preflight, world>>

\* main, --step all: build_all(exclude_steps)
main_all_BeforeClean ==
  /\ pc = "main" /\ step = "all"
  /\ pc' = "build_all"
  /\ UNCHANGED <<argv, idx, exitCode, proc, calls, fatal, warned, preflight,
                 present, cryptoFs, cryptoHist, stageFs, dstProtos, world>>
main_all ==
  /\ pc = "main" /\ ~clean /\ step = "all"
  /\ pc' = "build_all"
  /\ UNCHANGED <<argv, idx, exitCode, proc, calls, fatal, warned, preflight,
                 present, cryptoFs, cryptoHist, stageFs, dstProtos, world>>

\* main, a single step: the step's function unless its id is excluded;
\* "sdk" only prints that its function is gone, "dll" tests no exclusion
main_step ==
  /\ pc = "main" /\ ~clean /\ step # "all"
  /\ UNCHANGED <<argv, preflight, world>>
  /\ CASE step = "clone" ->
            IF "clone" \notin excluded THEN Run("clone_repositories") ELSE Nothing
       [] step = "crypto" ->
            IF "crypto" \notin excluded THEN Run("build_dotnet_crypto") ELSE Nothing
       [] step = "sdk" -> Nothing
       [] step = "rust" ->
            IF "rust" \notin excluded THEN Run("build_proton_sdk_rs") ELSE Nothing
       [] step = "protos" ->
            IF "protos" \notin excluded THEN Run("copy_protobufs") ELSE Nothing
       [] step = "dll" -> Run("build_dll_only")

\* the outcome of a tool's version check: exit 0, a non-zero exit, the
\* 10 s timeout, FileNotFoundError, or another OSError (not caught there)
ToolOutcomes == {"ok", "nonzero", "timeout", "notfound", "oserror"}

ToolStatuses ==
  {s \in [required_tools -> ToolOutcomes] :
     Cardinality({t \in required_tools : s[t] # "ok"}) <= MaxBadTools}

MissingOf_NotFoundOnly(s) == {t \in required_tools : s[t] = "notfound"}
MissingOf(s) == {t \in required_tools : s[t] \in {"nonzero", "timeout", "notfound"}}

\* build_all up to its loop: _check_windows_shell (prints only) and
\* check_dependencies, which exits with status 1 when a tool is missing;
\* an OSError reaches build_all's handler, which exits with status 1
check_dependencies ==
  /\ pc = "build_all"
  /\ \E s \in ToolStatuses :
       /\ tool_status' = s
       /\ missing_tools' = MissingOf(s)
       /\ IF missing_tools' # {} \/ (\E t \in required_tools : s[t] = "oserror")
          THEN pc' = "done" /\ exitCode' = 1 /\ idx' = idx
          ELSE pc' = "steps" /\ idx' = 1 /\ exitCode' = exitCode
  /\ UNCHANGED <<argv, proc, calls, fatal, warned, present, cryptoFs, cryptoHist,
                 stageFs, dstProtos, world>>

\* one turn of build_all's loop: the step is skipped when its id is in
\* exclude_steps, else its function is called
build_all_step ==
  /\ pc = "steps" /\ idx <= Len(all_steps)
  /\ UNCHANGED <<argv, preflight, world>>
  /\ IF all_steps[idx].name \in excluded
     THEN /\ idx' = idx + 1
          /\ UNCHANGED <<pc, exitCode, proc, calls, fatal, warned, present, cryptoFs,
                         cryptoHist, stageFs, dstProtos>>
     ELSE Run(all_steps[idx].func)

\* build_all after its loop: returns, and main with it
build_all_done ==
  /\ pc = "steps" /\ idx > Len(all_steps)
  /\ pc' = "done" /\ exitCode' = 0
  /\ UNCHANGED <<argv, idx, proc, calls, fatal, warned, preflight, present,
                 cryptoFs, cryptoHist, stageFs, dstProtos, world>>

\* --------------------------------------------------- inputs and worlds
BasePresent == {"proton-sdk-sys", "proton-sdk-rs"}
AllPresent == BasePresent \cup ClonedCrypto \cup ClonedSdk

BaseDirs == {<<"/", "work">>, <<"/", "runtimes", "ci">>}

\* subsets of S with at most n elements
UpTo(S, n) == {T \in SUBSET S : Cardinality(T) <= n}

\* files an AOT build may write below bin/Release/net9.0/<rid>
StagePaths ==
  {P(<<"publish">>, "sdk", ".dll"), P(<<"publish", "sub">>, "sdk", ".dll"),
   P(<<"publish">>, "sdk", ".PDB"), P(<<>>, "sdk", ".so")}

\* an AOT build: the output directory, the publish directory when a file
\* lies below it, each file tagged with the path it was built at
Build(S) ==
  [output |-> TRUE,
   publish |-> \E p \in S : IsPrefix(<<"publish">>, p.dir),
   files |-> [p \in S |-> p]]

Builds == {Build(S) : S \in UpTo(StagePaths, MaxFiles)} \cup {NoAot}

\* entries dotnet pack may put into the package
PackPaths ==
  {P(<<>>, "a", ".dll"), P(<<>>, "b", ".txt"),
   P(<<"runtimes", "linux-x64", "native">>, "libproton_crypto", ".so")}

Archives ==
  {[p \in S |-> "pack"] : S \in UpTo(PackPaths, MaxEntries) \ {{}}}

NupkgName == P(<<>>, "Proton.Cryptography.1.0.0", ".nupkg")
SnupkgName == P(<<>>, "Proton.Cryptography.1.0.0", ".snupkg")
Symbols == [p \in {P(<<>>, "a", ".pdb")} |-> "pack"]

PackOuts ==
  {(NupkgName :> a) : a \in Archives}
    \cup {(NupkgName :> a) @@ (SnupkgName :> Symbols) : a \in Archives}

\* dotnet-crypto/bin as an earlier run for some architecture left it
StaleBins(os) ==
  {NoDir} \cup
  {Dir([p \in BuiltFiles(go_os(os), go_runtime_id(os, a), "c-shared", FALSE) |-> "old"])
     : a \in Archs}

Protos ==
  [p \in {P(<<>>, "drive", ".proto"), P(<<>>, "README", ".md")} |-> "sdk"]
StaleProtos == Dir([p \in {P(<<>>, "old", ".proto")} |-> "stale"])

\* BuildScript.__init__: self.arch and self.os_name from the host
Constructed == arch = arch_of(host) /\ os_name = detect_os(host.system)

\* a 64-bit Intel host of each supported OS, --arch not given
IntelHosts ==
  {h \in Hosts : h.machine = "x86_64" /\ h.system # "FreeBSD" /\ h.arch_arg = "none"}

\* the state of a run as main() finds it after constructing BuildScript
RunStart ==
  /\ pc = "main" /\ idx = 0 /\ exitCode = -1
  /\ calls = <<>> /\ fatal = {} /\ warned = {}
  /\ cwd = StartDir /\ used = {}
  /\ missing_tools = {} /\ tool_status = [t \in required_tools |-> "unchecked"]

NoHistory ==
  /\ stageHist = <<>> /\ packed = EmptyTree /\ found = {} /\ goBuilt = {}
  /\ go_env = NoEnv /\ probes = <<>> /\ go_runs = <<>>

\* ------------------------------------------------ the run of the script
\* One run with any arguments, on a tree that is freshly checked out or
\* already cloned.
Init ==
  /\ step \in StepChoices /\ excluded \in SUBSET ExcludeChoices
  /\ clean \in BOOLEAN
  /\ host \in IntelHosts /\ Constructed /\ base_dir = <<"/", "work">>
  /\ run = 1 /\ RunStart
  /\ present \in {BasePresent, AllPresent}
  /\ cryptoBin = NoDir /\ temp = NoDir /\ cache = NoDir
  /\ aot = [r \in RIDs |-> NoAot] /\ otherFw = {}
  /\ nativeLibs = [r \in RIDs |-> NoDir]
  /\ srcProtos = Protos /\ dstProtos = StaleProtos
  /\ sdkBuild = Build({P(<<"publish">>, "sdk", ".dll"), P(<<"publish">>, "sdk", ".PDB")})
  /\ packOut = (NupkgName :> [p \in {P(<<>>, "a", ".dll")} |-> "pack"])
  /\ NoHistory

Next ==
  \/ main_clean
  \/ main_all
  \/ main_step
  \/ check_dependencies
  \/ build_all_step
  \/ build_all_done

Spec == Init /\ [][Next]_vars

\* ------------------------------------------------- the step executor
\* the step id whose action each step function is
StepOf(func) ==
  CASE func = "clone_repositories" -> "clone"
    [] func = "build_dotnet_crypto" -> "crypto"
    [] func = "copy_protobufs" -> "protos"
    [] func = "build_dll_only" -> "sdk"
    [] func = "build_proton_sdk_rs" -> "rust"

\* C1: in any run and for any exclusion set, the action of a step whose id
\* is excluded is never invoked.
C1_ExcludedNeverInvoked ==
  \A i \in 1..Len(calls) : StepOf(calls[i]) \notin excluded

ToolFailed(t) == tool_status[t] \in {"nonzero", "timeout", "notfound"}

\* C2: in build_all, when a required tool is missing, exits non-zero or
\* times out on its version check, no step action is invoked and the
\* process ends with a non-zero status.
C2_MissingToolAborts ==
  (\E t \in required_tools : ToolFailed(t)) =>
     calls = <<>> /\ pc = "done" /\ exitCode = 1

C2_Witness ==
  /\ step = "all" /\ excluded = {} /\ pc = "done"
  /\ tool_status["go"] = "timeout"
  /\ missing_tools = {"go"}

\* the step functions in the declared order
DeclaredOrder ==
  <<"clone_repositories", "build_dotnet_crypto", "copy_protobufs", "build_dll_only">>

\* the declared order up to position n, the excluded steps removed
RECURSIVE ExpectedCalls(_)
ExpectedCalls(n) ==
  IF n = 0 THEN <<>>
  ELSE IF StepOf(DeclaredOrder[n]) \in excluded THEN ExpectedCalls(n - 1)
  ELSE Append(ExpectedCalls(n - 1), DeclaredOrder[n])

\* C3: in build_all the step ids are unique and the step actions invoked
\* are the declared order (clone, crypto, protos, sdk) without the excluded
\* steps: at every moment the calls made are that sequence up to the
\* loop's position, each step at most once and in order, and a run that
\* ends without a failure has made all of them.
C3_DeclaredOrder ==
  (step = "all" /\ ~clean) =>
    /\ \A i, j \in 1..Len(all_steps) :
         all_steps[i].name = all_steps[j].name => i = j
    /\ IsPrefix(calls, ExpectedCalls(Len(DeclaredOrder)))
    /\ pc = "steps" => calls = ExpectedCalls(idx - 1)
    /\ (pc = "done" /\ exitCode = 0) => calls = ExpectedCalls(Len(DeclaredOrder))

C3_Witness ==
  /\ step = "all" /\ ~clean /\ excluded = {"crypto", "rust"}
  /\ pc = "done" /\ exitCode = 0
  /\ calls = <<"clone_repositories", "copy_protobufs", "build_dll_only">>

\* the step function whose command each fatal failure belongs to
FailedIn(cmd) ==
  IF cmd = "git clone" THEN "clone_repositories" ELSE "build_dotnet_crypto"

\* C4: when an external command of a fatal step fails (git clone, dotnet
\* nuget add source, dotnet pack), or an error of the operating system
\* leaves a step, no later step action is invoked and the process exits
\* non-zero; the exit status is 0 only when no such failure, no missing
\* tool and no OS error occurred.
C4_FatalAborts ==
  /\ \A cmd \in fatal :
       /\ pc = "done" /\ exitCode = 1
       /\ calls # <<>> /\ calls[Len(calls)] = FailedIn(cmd)
  /\ exitCode = 0 =>
       /\ fatal = {}
       /\ \A t \in required_tools : tool_status[t] \in {"ok", "unchecked"}

C4_Witness ==
  /\ step = "all" /\ excluded = {}
  /\ fatal = {"dotnet pack"}
  /\ calls = <<"clone_repositories", "build_dotnet_crypto">>
  /\ pc = "done" /\ exitCode = 1

\* ------------------------------------------------- a session of staging
\* Runs of the two staging steps, one after another, on a cloned tree.
\* Between runs the SDK sources may have been edited (dotnet publish then
\* writes other files) and the SDK's build output may have been removed.
StageSteps == {"dll", "rust"}

\* a framework directory of another SDK project, left by an earlier build
OtherFwFiles ==
  [p \in {P(<<>>, "Proton.Sdk", ".dll"), P(<<>>, "Proton.Sdk", ".pdb")} |-> p]

FwWorlds ==
  {{}, {[proj |-> "Proton.Sdk", fw |-> "net8.0", files |-> OtherFwFiles]}}

InitStage ==
  /\ step \in StageSteps /\ excluded = {} /\ clean = FALSE
  /\ host \in {h \in IntelHosts : h.system = "Linux"} /\ Constructed
  /\ base_dir = <<"/", "work">>
  /\ run = 1 /\ RunStart
  /\ present = AllPresent
  /\ cryptoBin = NoDir /\ temp = NoDir /\ cache = NoDir
  /\ aot = [r \in RIDs |-> NoAot] /\ otherFw \in FwWorlds
  /\ nativeLibs = [r \in RIDs |-> NoDir]
  /\ srcProtos = Protos /\ dstProtos = StaleProtos
  /\ sdkBuild \in Builds
  /\ packOut = (NupkgName :> [p \in {P(<<>>, "a", ".dll")} |-> "pack"])
  /\ NoHistory

\* the script is started again with another staging step
next_run_stage ==
  /\ pc = "done" /\ run < MaxRuns
  /\ run' = run + 1
  /\ step' \in StageSteps
  /\ sdkBuild' \in Builds
  /\ \E removed \in BOOLEAN :
       aot' = IF removed THEN [r \in RIDs |-> NoAot] ELSE aot
  /\ pc' = "main" /\ idx' = 0 /\ exitCode' = -1
  /\ calls' = <<>> /\ fatal' = {} /\ warned' = {}
  /\ cwd' = StartDir /\ used' = {}
  /\ missing_tools' = {} /\ tool_status' = [t \in required_tools |-> "unchecked"]
  /\ UNCHANGED <<excluded, clean, arch, os_name, base_dir, host, present, cryptoFs,
                 cryptoHist, nativeLibs, stageHist, dstProtos, packOut,
                 srcProtos, otherFw>>

NextStage ==
  \/ main_step
  \/ next_run_stage

SpecStage == InitStage /\ [][NextStage]_vars

\* a staged file is a copy of a file of the source it was staged from
CopyOf(e, q) ==
  \E p \in DOMAIN e.src :
    /\ q.stem = p.stem /\ q.ext = p.ext
    /\ e.after.files[q] = e.src[p]

\* C5: each staging for a runtime identifier replaces the destination
\* directory: after it the destination holds only files copied from the
\* current source, by build_dll_only as well as by build_proton_sdk_rs.
C5_FullReplace ==
  \A i \in 1..Len(stageHist) :
    \A q \in DOMAIN stageHist[i].after.files : CopyOf(stageHist[i], q)

\* the two last stagings had identical inputs
SameInputs ==
  /\ Len(stageHist) = 2
  /\ stageHist[1].fn = stageHist[2].fn
  /\ stageHist[1].rid = stageHist[2].rid
  /\ stageHist[1].src = stageHist[2].src

\* C6: staging is idempotent: staging twice with identical inputs leaves
\* the destination after the second run as it was after the first.
C6_Idempotent ==
  SameInputs => stageHist[2].after = stageHist[1].after

C6_Witness ==
  /\ SameInputs
  /\ stageHist[1].fn = "build_proton_sdk_rs"
  /\ stageHist[1].before.exists
  /\ stageHist[1].before # stageHist[1].after
  /\ stageHist[1].after.files # EmptyTree

C6_WitnessDll ==
  /\ SameInputs
  /\ stageHist[1].fn = "build_dll_only"
  /\ stageHist[1].before # stageHist[1].after
  /\ Cardinality(DOMAIN stageHist[1].src) = 2
  /\ Cardinality(DOMAIN stageHist[1].after.files) = 1

\* C7: staging never copies a file whose suffix is .pdb in any case: no
\* destination directory ever holds one.
C7_NoPdbStaged ==
  \A r \in RIDs :
    \A q \in DOMAIN nativeLibs[r].files : q.ext \notin {".pdb", ".PDB", ".Pdb"}

C7_Witness ==
  /\ stageHist # <<>>
  /\ LET e == stageHist[Len(stageHist)]
     IN  /\ \E p \in DOMAIN e.src : p.ext = ".PDB"
         /\ e.after.files # EmptyTree
         /\ nativeLibs[e.rid] = e.after

\* ------------------------------------------------------ the crypto step
\* One run of the crypto step, on any supported OS and architecture, with
\* dotnet-crypto/bin as an earlier run may have left it.
InitCrypto ==
  /\ step = "crypto" /\ excluded = {} /\ clean = FALSE
  /\ host \in {h \in Hosts : h.machine = "x86_64" /\ h.system # "FreeBSD"
                              /\ h.arch_arg \in Archs}
  /\ Constructed /\ base_dir \in BaseDirs
  /\ run = 1 /\ RunStart
  /\ present \in {AllPresent, AllPresent \ {"go_src"}}
  /\ cryptoBin \in StaleBins(os_name) /\ temp = NoDir /\ cache = NoDir
  /\ aot = [r \in RIDs |-> NoAot] /\ otherFw = {}
  /\ nativeLibs = [r \in RIDs |-> NoDir]
  /\ srcProtos = Protos /\ dstProtos = StaleProtos
  /\ sdkBuild = NoAot
  /\ packOut \in PackOuts
  /\ NoHistory

NextCrypto == main_step

SpecCrypto == InitCrypto /\ [][NextCrypto]_vars

CryptoDone ==
  pc = "done" /\ exitCode = 0 /\ calls = <<"build_dotnet_crypto">>

\* the path segments of a library of dotnet-crypto/bin
SourcePath(l) == base_dir \o <<"dotnet-crypto", "bin">> \o l.dir

\* the segment that follows the first "runtimes" of a path
RECURSIVE AfterRuntimes(_)
AfterRuntimes(path) ==
  IF Head(path) = "runtimes" THEN path[2] ELSE AfterRuntimes(Tail(path))

\* the archive entry runtimes/<rid>/native/<name> of a found library
InjectedEntry(l) ==
  P(<<"runtimes", AfterRuntimes(SourcePath(l)), "native">>, l.stem, l.ext)

\* C8: repackaging preserves every entry of the archive and adds only the
\* native libraries: the rewritten archive's entries are those dotnet pack
\* wrote united with runtimes/<rid>/native/<name> for each library found,
\* <rid> being the segment after "runtimes" in the library's path; the
\* other entries keep their content and the added ones hold a library.
C8_Repackage ==
  (CryptoDone /\ found # {}) =>
    LET E == packed[NupkgName]
        A == cache.files[NupkgName]
        T == {InjectedEntry(l) : l \in found}
    IN  /\ DOMAIN A = (DOMAIN E) \cup T
        /\ \A p \in (DOMAIN E) \ T : A[p] = E[p]
        /\ \A t \in T :
             \E l \in found : InjectedEntry(l) = t /\ A[t] = cryptoBin.files[l]

C8_Witness ==
  /\ CryptoDone
  /\ found = {P(<<"runtimes", "linux-x64", "native">>, "libproton_crypto", ".so"),
              P(<<"runtimes", "linux-x64", "native">>, "libproton_crypto", ".a")}
  /\ DOMAIN packed[NupkgName] = {P(<<>>, "a", ".dll"), P(<<>>, "b", ".txt")}
  /\ Cardinality(DOMAIN cache.files[NupkgName]) = 4

\* C9: after the crypto step on Windows, Linux or macOS, for every native
\* library file the Go build produced for the runtime identifier the
\* archive holds the entry runtimes/<runtime-id>/native/<filename>.
C9_BuiltLibsInArchive ==
  CryptoDone =>
    /\ NupkgName \in DOMAIN cache.files
    /\ \A f \in goBuilt :
         P(<<"runtimes", go_runtime_id(os_name, arch), "native">>, f.stem, f.ext)
           \in DOMAIN cache.files[NupkgName]

\* C10: when no native library to inject is found, the archive is neither
\* deleted nor rewritten: it has the entries and contents dotnet pack
\* gave it.
C10_NoLibsUntouched ==
  (CryptoDone /\ found = {}) =>
    \A n \in DOMAIN packed :
      n \in DOMAIN cache.files /\ cache.files[n] = packed[n]

C10_Witness ==
  /\ CryptoDone /\ found = {}
  /\ os_name = "windows" /\ goBuilt # {}
  /\ NupkgName \in DOMAIN cache.files

C10_WitnessNoBuild ==
  /\ CryptoDone /\ found = {}
  /\ os_name = "linux" /\ goBuilt = {} /\ cryptoBin.exists
  /\ NupkgName \in DOMAIN cache.files

\* ------------------------------------------- construction on any host
\* BuildScript is constructed on any host, then one step that derives
\* platform tokens runs on a cloned tree.
PlatformSteps == {"crypto", "dll", "rust"}

InitPlatform ==
  /\ step \in PlatformSteps /\ excluded = {} /\ clean = FALSE
  /\ host \in Hosts /\ arch = "" /\ os_name = "" /\ base_dir = <<"/", "work">>
  /\ run = 1 /\ pc = "new" /\ idx = 0 /\ exitCode = -1
  /\ calls = <<>> /\ fatal = {} /\ warned = {}
  /\ cwd = StartDir /\ used = {}
  /\ missing_tools = {} /\ tool_status = [t \in required_tools |-> "unchecked"]
  /\ present = AllPresent
  /\ cryptoBin = NoDir /\ temp = NoDir /\ cache = NoDir
  /\ aot = [r \in RIDs |-> NoAot] /\ otherFw = {}
  /\ nativeLibs = [r \in RIDs |-> NoDir]
  /\ srcProtos = Protos /\ dstProtos = StaleProtos
  /\ sdkBuild = Build({P(<<"publish">>, "sdk", ".dll")})
  /\ packOut = (NupkgName :> [p \in {P(<<>>, "a", ".dll")} |-> "pack"])
  /\ NoHistory

\* BuildScript.__init__: detection of the architecture, unless --arch
\* names one, and of the OS
BuildScript_init ==
  /\ pc = "new"
  /\ arch' = arch_of(host)
  /\ os_name' = detect_os(host.system)
  /\ pc' = "main"
  /\ UNCHANGED <<step, excluded, clean, base_dir, run, host, idx, exitCode, proc,
                 calls, fatal, warned, preflight, present, cryptoFs, cryptoHist, stageFs,
                 dstProtos, world>>

NextPlatform ==
  \/ BuildScript_init
  \/ main_step

SpecPlatform == InitPlatform /\ [][NextPlatform]_vars

\* the tables of the environment prober: raw machine -> compiler
\* architecture; raw OS -> compiler OS, generic OS, runtime OS segment
ArchTable ==
  [m \in {"x86_64", "amd64", "aarch64", "arm64", "i386", "i686", "x86"} |->
     CASE m \in {"x86_64", "amd64"} -> "amd64"
       [] m \in {"aarch64", "arm64"} -> "arm64"
       [] OTHER -> "386"]

OSTable ==
  [o \in {"Windows", "Darwin", "Linux"} |->
     CASE o = "Windows" -> [compiler |-> "windows", generic |-> "windows", runtime |-> "win"]
       [] o = "Darwin" -> [compiler |-> "darwin", generic |-> "macos", runtime |-> "osx"]
       [] OTHER -> [compiler |-> "linux", generic |-> "linux", runtime |-> "linux"]]

RuntimeArch(a) == IF a = "amd64" THEN "x64" ELSE a

SupportedHost ==
  /\ host.machine \in DOMAIN ArchTable
  /\ host.system \in DOMAIN OSTable
  /\ host.arch_arg = "none"

C11_WitnessDarwin ==
  /\ host = [machine |-> "aarch64", system |-> "Darwin", arch_arg |-> "none"]
  /\ pc = "done" /\ step = "crypto"
  /\ os_name = "macos" /\ go_env.GOOS = "darwin" /\ go_env.GOARCH = "arm64"

\* an OS or machine string outside the tables reached os_name or arch
UnknownPlatform ==
  \/ host.system = "FreeBSD"
  \/ host.arch_arg = "none" /\ host.machine = "riscv64"

\* the external commands whose failure ends a run
FatalCommands == {"git clone", "dotnet nuget add source", "dotnet pack"}

\* C12: with an OS or machine string outside the tables, a step that
\* derives platform tokens completes: unless one of its external commands
\* failed, the run ends with status 0, and the Go build has been given the
\* strings passed through.
C12_UnknownPlatformTolerated ==
  (UnknownPlatform /\ pc = "done" /\ fatal \cap FatalCommands = {}) =>
    /\ exitCode = 0
    /\ step = "crypto" => go_env.GOOS = os_name /\ go_env.GOARCH = arch

\* ------------------------------------------------ the toolchain resolver
\* every probe of the C compiler this run made has failed
NoCompilerProbes ==
  \/ ToolFailed("gcc")
  \/ probes # <<>> /\ \A i \in 1..Len(probes) : ~probes[i].ok

\* C13: on Windows, when no compiler candidate probes successfully, the run
\* is not aborted: with every other tool present and no fatal command
\* failure it ends with status 0, and a full run has invoked every step
\* that is not excluded.
C13_NoCompilerNotFatal ==
  ( /\ os_name = "windows" /\ NoCompilerProbes /\ pc = "done" /\ ~clean
    /\ fatal = {}
    /\ \A t \in required_tools \ {"gcc"} : tool_status[t] \in {"ok", "unchecked"} )
  => /\ exitCode = 0
     /\ step = "all" => calls = ExpectedCalls(Len(DeclaredOrder))

\* the candidates in rank order, and the candidate a probe command is of
CandidateRank == <<"msvc", "clang", "mingw">>
CandidateOf(cmd) == IF cmd = "gcc --version" THEN "mingw" ELSE "other"

\* the crypto step got as far as configuring the compiler
Resolving == calls = <<"build_dotnet_crypto">> /\ go_env # NoEnv

\* C14: on Windows the candidates are probed in the order MSVC, Clang,
\* MinGW: the probes run are the ranks from the first on, each probe but
\* the last has failed, and probing stops before MinGW only on a success.
C14_ProbeOrder ==
  (os_name = "windows" /\ Resolving) =>
    /\ Len(probes) \in 1..Len(CandidateRank)
    /\ \A i \in 1..Len(probes) : CandidateOf(probes[i].cmd) = CandidateRank[i]
    /\ \A i \in 1..(Len(probes) - 1) : ~probes[i].ok
    /\ Len(probes) < Len(CandidateRank) => probes[Len(probes)].ok

\* the positions of go_runs at which a build mode was built
RunsOf(mode) == {i \in 1..Len(go_runs) : go_runs[i].mode = mode}

\* C15: a build mode whose `go build` fails is built once more with the
\* MinGW overlay: it has exactly two runs, the second with CC = gcc, and a
\* build mode whose first build succeeds has one.
C15_RetryOnceWithMinGW ==
  \A i \in 1..Len(build_modes) :
    LET rs == RunsOf(build_modes[i])
        first == CHOOSE r \in rs : \A q \in rs : r <= q
    IN  rs # {} =>
          IF go_runs[first].ok THEN Cardinality(rs) = 1
          ELSE /\ Cardinality(rs) = 2
               /\ \A r \in rs \ {first} : go_runs[r].CC = "gcc"

\* C16: on a target other than Windows the crypto step runs no compiler
\* probe and the Go builds get CC = gcc, on every OS and architecture.
C16_NonWindowsFixedDefault ==
  (os_name # "windows" /\ calls = <<"build_dotnet_crypto">>) =>
    /\ probes = <<>>
    /\ go_env.CC = "gcc"
    /\ \A i \in 1..Len(go_runs) : go_runs[i].CC = "gcc"

C16_Witness ==
  /\ os_name = "macos" /\ arch = "arm64" /\ pc = "done"
  /\ probes = <<>> /\ go_env.CC = "gcc"
  /\ Len(go_runs) = 2 /\ go_runs[1].ok /\ ~go_runs[2].ok

\* C17: on Windows, when the MinGW probe succeeds, the Go builds get the
\* MinGW overlay (CC = gcc, CXX = g++, static link flags) and nothing but
\* gcc has been probed, located or sourced.
C17_MinGWSelected ==
  (os_name = "windows" /\ probes # <<>> /\ probes[Len(probes)].ok) =>
    /\ go_env.CC = "gcc" /\ go_env.CXX = "g++"
    /\ go_env.CGO_LDFLAGS = "-s -w -static -static-libgcc -static-libstdc++"
    /\ \A i \in 1..Len(probes) : probes[i].cmd = "gcc --version"
    /\ \A i \in 1..Len(go_runs) : go_runs[i].CC = "gcc"

C17_Witness ==
  /\ os_name = "windows" /\ pc = "done" /\ exitCode = 0
  /\ probes = <<Probe("gcc --version", TRUE)>>
  /\ go_env.CXX = "g++"
  /\ Len(go_runs) = 2 /\ go_runs[1].ok /\ go_runs[2].ok

\* ------------------------------------------- a session of builds, cleans
\* Runs of the script one after another on a cloned Linux tree: single
\* build steps and runs with --clean.
SessionSteps == {"clone", "crypto", "dll", "rust"}

\* the hosts of a session: one Linux machine, --arch given
SessionHosts ==
  {h \in Hosts : h.machine = "x86_64" /\ h.system = "Linux"
                 /\ h.arch_arg \in {"amd64", "arm64"}}

\* what dotnet pack writes: the package, with or without the symbols
SessionPackOuts ==
  {(NupkgName :> [p \in {P(<<>>, "a", ".dll")} |-> "pack"]),
   (NupkgName :> [p \in {P(<<>>, "a", ".dll")} |-> "pack"])
     @@ (SnupkgName :> Symbols)}

InitSession ==
  /\ step \in SessionSteps /\ excluded = {} /\ clean = FALSE
  /\ host \in SessionHosts /\ Constructed
  /\ base_dir = <<"/", "work">>
  /\ run = 1 /\ RunStart
  /\ present \in {BasePresent, AllPresent}
  /\ cryptoBin = NoDir /\ temp = NoDir /\ cache = NoDir
  /\ aot = [r \in RIDs |-> NoAot] /\ otherFw = {}
  /\ nativeLibs = [r \in RIDs |-> NoDir]
  /\ srcProtos = Protos /\ dstProtos = StaleProtos
  /\ sdkBuild = Build({P(<<"publish">>, "sdk", ".dll")})
  /\ packOut \in SessionPackOuts
  /\ NoHistory

\* the script is started again, with another step, another --arch or with
\* --clean; the crypto sources may have been edited in between
next_run_session ==
  /\ pc = "done" /\ run < MaxRuns
  /\ run' = run + 1
  /\ step' \in SessionSteps
  /\ clean' \in BOOLEAN
  /\ host' \in SessionHosts
  /\ arch' = arch_of(host') /\ os_name' = detect_os(host'.system)
  /\ packOut' \in SessionPackOuts
  /\ pc' = "main" /\ idx' = 0 /\ exitCode' = -1
  /\ calls' = <<>> /\ fatal' = {} /\ warned' = {}
  /\ cwd' = StartDir /\ used' = {}
  /\ missing_tools' = {} /\ tool_status' = [t \in required_tools |-> "unchecked"]
  /\ UNCHANGED <<excluded, base_dir, present, cryptoFs, cryptoHist, stageFs,
                 dstProtos, sdkBuild, srcProtos, otherFw>>

NextSession ==
  \/ main_step
  \/ main_clean
  \/ next_run_session

SpecSession == InitSession /\ [][NextSession]_vars

\* C18: after a clean that met no removal error none of the generated
\* directories remains: the package cache, the staging directories
\* native-libs/<rid>, dotnet-crypto's bin and temporary package directory,
\* and the bin directories below Proton.SDK/src.
C18_CleanRemovesAll ==
  (clean /\ pc = "done" /\ warned = {}) =>
    /\ ~cache.exists /\ ~cryptoBin.exists /\ ~temp.exists
    /\ \A r \in RIDs : ~nativeLibs[r].exists /\ ~aot[r].output

\* C19: with --clean nothing is built: no step function is invoked and no
\* tool is checked, whatever --step and --exclude say, and the run ends
\* with status 0.
C19_CleanBuildsNothing ==
  clean =>
    /\ calls = <<>>
    /\ missing_tools = {} /\ \A t \in required_tools : tool_status[t] = "unchecked"
    /\ pc \in {"main", "done"}
    /\ pc = "done" => exitCode = 0

C19_Witness ==
  /\ clean /\ pc = "done" /\ exitCode = 0
  /\ step = "all" /\ excluded = {"clone"}
  /\ calls = <<>>

\* dst holds a copy of every file of src but the .pdb ones, under the
\* file's name
StagedFrom(src, dst) ==
  /\ dst.exists
  /\ \A p \in DOMAIN src :
       Lower(p.ext) # ".pdb" =>
         \E q \in DOMAIN dst.files, o \in DOMAIN src :
           /\ q.stem = p.stem /\ q.ext = p.ext
           /\ o.stem = p.stem /\ o.ext = p.ext
           /\ dst.files[q] = src[o]

\* C20: a staging step whose commands succeed stages from the first
\* candidate that exists: the AOT publish directory, else the AOT output
\* directory, else a framework output directory found by pattern; with no
\* candidate every staging directory stays as it was.  In each case the
\* run ends with status 0.
C20_SourceResolution ==
  [][ (pc = "main" /\ pc' = "done" /\ step \in StageSteps /\ warned' = {}) =>
        LET rid == runtime_id(os_name, arch)
            a == aot'[rid]
            fws == net90_dirs'
        IN  /\ exitCode' = 0
            /\ IF a.publish
               THEN StagedFrom(Under(a.files, <<"publish">>), nativeLibs'[rid])
               ELSE IF a.output
               THEN StagedFrom(a.files, nativeLibs'[rid])
               ELSE IF fws # {}
               THEN \E d \in fws : StagedFrom(d.files, nativeLibs'[rid])
               ELSE nativeLibs' = nativeLibs ]_vars

\* ------------------------------------------------- structure, preflight
\* C21: the staging copy keeps the relative paths: after a staging every
\* file of the source but the .pdb ones is in the destination at the
\* path it has below the source directory, with its content, so files of
\* one name in different subdirectories are all there.
C21_StructurePreserved ==
  \A i \in 1..Len(stageHist) :
    \A p \in DOMAIN stageHist[i].src :
      Lower(p.ext) # ".pdb" =>
        /\ p \in DOMAIN stageHist[i].after.files
        /\ stageHist[i].after.files[p] = stageHist[i].src[p]

\* C22: in every run mode the tools are checked before a step function is
\* invoked: once a step function has been called, every required tool has
\* passed its version check.
C22_PreflightAlways ==
  calls # <<>> => \A t \in required_tools : tool_status[t] = "ok"

\* the commands whose failure a step function only warns about
BestEffortCommands ==
  {"dotnet nuget remove source", "go build c-shared", "go build c-archive",
   "dotnet restore", "dotnet publish"}

\* C23: a failed best-effort command does not abort the run: a run in
\* which only such commands failed ends with status 0, a full run has
\* then invoked every step that is not excluded, and a failed c-shared
\* build is followed by the c-archive build.
C23_BestEffortContained ==
  /\ ( /\ pc = "done" /\ ~clean /\ fatal = {}
       /\ \A t \in required_tools : tool_status[t] \in {"ok", "unchecked"} )
     => /\ exitCode = 0
        /\ step = "all" => calls = ExpectedCalls(Len(DeclaredOrder))
  /\ "go build c-shared" \in warned =>
       \E i \in 1..Len(go_runs) : go_runs[i].mode = "c-archive"

C23_Witness ==
  /\ step = "all" /\ excluded = {} /\ pc = "done" /\ exitCode = 0
  /\ warned = {"dotnet nuget remove source", "go build c-shared", "dotnet publish"}
  /\ Len(calls) = 4

\* C24: the runtime identifier under which the Go build writes its output
\* is the one the staging steps use for the same OS and architecture:
\* every file the Go build produced lies in
\* runtimes/<staging runtime identifier>/native.
C24_OneRuntimeId ==
  \A f \in goBuilt :
    f.dir = <<"runtimes", runtime_id(os_name, arch), "native">>

\* ------------------------------------------- absolute, relative base_dir
\* One run with --base-dir given as an absolute or as a relative path, on
\* a fresh or a cloned Linux tree.
CwdSteps == {"all", "clone", "crypto", "protos", "rust", "dll"}
CwdBaseDirs == {<<"/", "work">>, <<"work">>}

InitCwd ==
  /\ step \in CwdSteps /\ excluded \in SUBSET {"clone", "crypto"}
  /\ clean = FALSE
  /\ host \in {h \in IntelHosts : h.system = "Linux"} /\ Constructed
  /\ base_dir \in CwdBaseDirs
  /\ run = 1 /\ RunStart
  /\ present \in {BasePresent, AllPresent}
  /\ cryptoBin = NoDir /\ temp = NoDir /\ cache = NoDir
  /\ aot = [r \in RIDs |-> NoAot] /\ otherFw = {}
  /\ nativeLibs = [r \in RIDs |-> NoDir]
  /\ srcProtos = Protos /\ dstProtos = StaleProtos
  /\ sdkBuild = Build({P(<<"publish">>, "sdk", ".dll")})
  /\ packOut = (NupkgName :> [p \in {P(<<>>, "a", ".dll")} |-> "pack"])
  /\ NoHistory

NextCwd ==
  \/ main_all
  \/ main_step
  \/ check_dependencies
  \/ build_all_step
  \/ build_all_done

SpecCwd == InitCwd /\ [][NextCwd]_vars

\* where each use is meant to be: dotnet pack in the tree's dotnet-crypto,
\* git clone and the paths built on the base directory in the tree
Intended(what) ==
  IF what = "dotnet pack" THEN Tree \o <<"dotnet-crypto">> ELSE Tree

\* C25: every command that relies on the working directory runs in the
\* directory its step intends, and every path built on the base directory
\* names the tree, whatever steps ran before and whether --base-dir is
\* absolute or relative.
C25_LocationsAsIntended ==
  \A u \in used : u.at = Intended(u.what)

\* ------------------------------------------------------------- C26
Invoked(what) == \E u \in used' \ used : u.what = what

CloneStepTaken == calls' = Append(calls, "clone_repositories")

BoundTo(id) ==
  all_steps[CHOOSE i \in 1..Len(all_steps) : all_steps[i].name = id].func

SharedIds == {all_steps[i].name : i \in 1..Len(all_steps)} \cap StepChoices

\* C27: a single-step run of an id that build_all also lists (clone, crypto,
\* protos, sdk) calls exactly the function build_all binds to that id.
C27_SingleStepSameAction ==
  (step \in SharedIds /\ step \notin excluded /\ ~clean /\ pc = "done")
     => calls = <<BoundTo(step)>>

\* ------------------------------------------------------------- C28
CryptoCompleted ==
  calls' = Append(calls, "build_dotnet_crypto") /\ fatal' = fatal

\* C28: the local package cache only accumulates during builds.  In a run
\* without --clean no step takes a name out of the cache, and a cached file
\* of a name that was not built anew keeps its content; when the crypto step
\* completes, every file dotnet pack left in the temporary package
\* directory is in the cache under its name and the temporary directory
\* holds no file.
C28_CacheAccumulates ==
  [][~clean =>
       /\ DOMAIN cache.files \subseteq DOMAIN cache'.files
       /\ CryptoCompleted =>
            /\ DOMAIN packed' \subseteq DOMAIN cache'.files
            /\ DOMAIN temp'.files = {}
            /\ \A n \in DOMAIN cache.files \ DOMAIN packed' :
                 cache'.files[n] = cache.files[n]
       /\ ~CryptoCompleted => cache'.files = cache.files]_vars

\* a later crypto run packed only the package: the symbols package an
\* earlier run moved into the cache is still there
C28_Witness ==
  /\ run >= 2 /\ step = "crypto" /\ ~clean /\ pc = "done" /\ exitCode = 0
  /\ DOMAIN packed = {NupkgName}
  /\ {NupkgName, SnupkgName} \subseteq DOMAIN cache.files
  /\ cache.files[SnupkgName] = Symbols
  /\ DOMAIN temp.files = {}

\* ------------------------------------------------------------- C29
StagingStepTaken ==
  \E fn \in {"build_dll_only", "build_proton_sdk_rs"} : calls' = Append(calls, fn)

ProtoNames(t) == {p \in DOMAIN t : IsProto(p)}

ProtosStepTaken == calls' = Append(calls, "copy_protobufs")

====
